---- MODULE Spec2Model ----
(***************************************************************************)
(* A model of the Zig extension for Zed (src/src/zig.rs):                  *)
(*   - ZigExtension::language_server_binary, the resolution of the zls     *)
(*     binary (settings override, PATH, instance cache, latest release,    *)
(*     download, make-executable, cleanup of the working directory);       *)
(*   - dap_locator_create_scenario and run_dap_locator, the translation of *)
(*     a build task into a debug scenario and into a launch request.       *)
(*                                                                         *)
(* Conventions.  Option<T> is a sequence of length 0 (None) or 1 (Some).   *)
(* A String the code only formats is a TLA+ string; a String the code      *)
(* parses as a path (the task's cwd, the process's current directory) is   *)
(* the sequence of its characters.                                         *)
(***************************************************************************)
EXTENDS Naturals, Sequences, FiniteSets, TLC

VARIABLES
    platform,            \* zed::current_platform().0
    arch,                \* zed::current_platform().1
    cached_binary_path,  \* ZigExtension.cached_binary_path
    settings,            \* what LspSettings::for_worktree("zls", worktree) returns
    path_zls,            \* what worktree.which("zls") returns
    release,             \* what zed::latest_github_release returns
    entries,             \* names of the entries of the working directory "."
    files,               \* the regular files below the working directory
    execs,               \* the files make_file_executable has succeeded on
    call,                \* the last language_server_binary call, None if the
                         \* environment changed since (or no call was made)
    current_dir,         \* what std::env::current_dir() returns
    task,                \* the zed::TaskTemplate handed to the locator
    scenario,            \* the last dap_locator_create_scenario outcome
    request,             \* the last run_dap_locator outcome
    located              \* the last run_dap_locator outcome for a scenario's build template

vars == <<platform, arch, cached_binary_path, settings, path_zls, release,
          entries, files, execs, call, current_dir, task, scenario, request,
          located>>

lspVars == <<cached_binary_path, settings, path_zls, release, entries, files,
             execs, call>>

dapVars == <<current_dir, task, scenario, request, located>>

None == <<>>

Some(x) == <<x>>

IsSome(o) == Len(o) = 1

Unwrap(o) == o[1]

(***************************************************************************)
(* Bounds of the model.                                                    *)
(***************************************************************************)
\* the number of zls releases the release feed may name
NumVersions == 2

\* the longest argument list of a task
MaxArgs == 3

Os == {"Mac", "Linux", "Windows"}

Architecture == {"Aarch64", "X86", "X8664"}

VersionName(i) == "0." \o ToString(13 + i) \o ".0"

Versions == {VersionName(i) : i \in 1..NumVersions}

(***************************************************************************)
(* The environment of language_server_binary.                              *)
(***************************************************************************)
\* worktree.shell_env()
ShellEnv == << <<"PATH", "/usr/bin">> >>

\* the values of lsp_settings.binary.arguments
SettingsArguments == {None, Some(<<"--enable-debug-log">>)}

\* the values of lsp_settings.binary.path; nothing says the file exists
SettingsPaths == {None, Some("/opt/zls/bin/zls")}

\* the values of LspSettings::for_worktree("zls", worktree):
\* Err, Ok without a binary section, Ok with one
LspSettings ==
    {[ok |-> FALSE, binary |-> None], [ok |-> TRUE, binary |-> None]}
    \cup {[ok |-> TRUE, binary |-> Some([path |-> p, arguments |-> a])] :
            p \in SettingsPaths, a \in SettingsArguments}

\* the values of worktree.which("zls")
WhichResults == {None, Some("/usr/bin/zls")}

\* the values of zed::latest_github_release("zigtools/zls", ..)
ReleaseResults ==
    {[ok |-> FALSE, err |-> "no release found"]}
    \cup {[ok |-> TRUE, version |-> v] : v \in Versions}

(***************************************************************************)
(* lines 77-101: the names derived from the platform and the release.      *)
(***************************************************************************)
ArchToken(a) ==
    CASE a = "Aarch64" -> "aarch64"
      [] a = "X86" -> "x86"
      [] a = "X8664" -> "x86_64"

OsToken(os) ==
    CASE os = "Mac" -> "macos"
      [] os = "Linux" -> "linux"
      [] os = "Windows" -> "windows"

Extension(os) == IF os \in {"Mac", "Linux"} THEN "tar.gz" ELSE "zip"

\* AssetName with the tokens in the order of the comment at lines 67-68
AssetName_OsFirst(a, os, version) ==
    "zls-" \o OsToken(os) \o "-" \o ArchToken(a) \o "-" \o version
        \o "." \o Extension(os)

AssetName(a, os, version) ==
    "zls-" \o ArchToken(a) \o "-" \o OsToken(os) \o "-" \o version
        \o "." \o Extension(os)

DownloadUrl(a, os, version) ==
    "https://builds.zigtools.org/" \o AssetName(a, os, version)

VersionDir(version) == "zls-" \o version

\* the file name of the binary below version_dir
BinaryFile(os) == IF os \in {"Mac", "Linux"} THEN "zls" ELSE "zls.exe"

BinaryPath(os, version) == VersionDir(version) \o "/" \o BinaryFile(os)

DownloadedFileType(os) == IF os \in {"Mac", "Linux"} THEN "GzipTar" ELSE "Zip"

(***************************************************************************)
(* The working directory: entries is the set of names read_dir(".")        *)
(* lists, files the set of regular files [dir, name] below them.           *)
(***************************************************************************)
\* an entry of the working directory that is no version directory
OtherEntry == "tmp"

EntryNames == {VersionDir(v) : v \in Versions} \cup {OtherEntry}

FilePath(f) == f.dir \o "/" \o f.name

\* fs::metadata(path).map_or(false, |stat| stat.is_file())
IsFile(path, fs) == \E f \in fs : FilePath(f) = path

\* the file the zls archive of a platform unpacks below version_dir
Unpacked(os, version_dir) == [dir |-> version_dir, name |-> BinaryFile(os)]

RemoveAll(names, fs) == {f \in fs : f.dir \notin names}

(***************************************************************************)
(* What one call draws from the host: how download_file ends ("ok", or    *)
(* "err", which leaves the working directory as it was), whether           *)
(* make_file_executable and read_dir succeed, the entries the directory    *)
(* iterator yields before it ends (all of them) or yields an error (some   *)
(* of them), and the entries remove_dir_all fails on.  NoInputs stands for *)
(* the draws a call does not consult.                                      *)
(***************************************************************************)
NoInputs ==
    [dl |-> "ok", exec |-> TRUE, list |-> TRUE, seen |-> {}, rm_fail |-> {},
     rm_lost |-> {}]

DownloadError == "connection reset"

ExecError == "permission denied"

IoError == "io error"

Ok(path, args, environment) ==
    [ok |-> TRUE, path |-> path, args |-> args, environment |-> environment]

Err(msg) == [ok |-> FALSE, err |-> msg]

\* lines 25-29
Environment(os) == IF os \in {"Mac", "Linux"} THEN Some(ShellEnv) ELSE None

\* lines 23, 31-33: args after the settings were read
SettingsArgs(st) ==
    IF st.ok /\ IsSome(st.binary) THEN Unwrap(st.binary).arguments ELSE None

\* lines 31-34: the explicit binary path of the settings
SettingsPath(st) ==
    IF st.ok /\ IsSome(st.binary) THEN Unwrap(st.binary).path ELSE None

\* CacheHit with the cache never consulted
CacheHit_Ignored(cached, fs) == FALSE

\* CacheHit without the file check
CacheHit_Unchecked(cached, fs) == IsSome(cached)

\* lines 52-53: the cache entry, trusted only if it is a regular file
CacheHit(cached, fs) == IsSome(cached) /\ IsFile(Unwrap(cached), fs)

\* Cleanup with a failed removal propagated like the other two failures
Cleanup_RemoveFatal(w, version_dir, in) ==
    IF ~in.list
    THEN [w EXCEPT !.err = Some("failed to list working directory " \o IoError),
                   !.log = @ \o <<[op |-> "read_dir", ok |-> FALSE]>>]
    ELSE LET seen == in.seen \cap w.entries
             targets == {e \in seen : e # version_dir}
             removed == targets \ in.rm_fail
             emptied == removed \cup (targets \cap in.rm_lost)
         IN [w EXCEPT
               !.err = IF seen # w.entries
                       THEN Some("failed to load directory entry " \o IoError)
                       ELSE IF targets \cap in.rm_fail # {}
                       THEN Some("failed to remove directory " \o IoError)
                       ELSE None,
               !.log = @ \o <<[op |-> "read_dir", ok |-> TRUE],
                              [op |-> "remove_dir_all", targets |-> targets,
                               failed |-> targets \cap in.rm_fail]>>,
               !.entries = @ \ removed,
               !.files = RemoveAll(emptied, @),
               !.execs = RemoveAll(emptied, @)]

(***************************************************************************)
(* lines 121-128: the entries read before the iterator fails are compared  *)
(* with version_dir and removed; a failed removal is dropped by .ok().     *)
(* fs::remove_dir_all unlinks the contents before the directory itself, so *)
(* a removal that fails leaves the entry, with its files (rm_fail only) or *)
(* without them (rm_lost: the failure came after the files were unlinked). *)
(***************************************************************************)
\* Cleanup without the name test of line 125: every entry read is removed
Cleanup_RemoveAllSeen(w, version_dir, in) ==
    IF ~in.list
    THEN [w EXCEPT !.err = Some("failed to list working directory " \o IoError),
                   !.log = @ \o <<[op |-> "read_dir", ok |-> FALSE]>>]
    ELSE LET seen == in.seen \cap w.entries
             removed == seen \ in.rm_fail
             emptied == removed \cup (seen \cap in.rm_lost)
         IN [w EXCEPT
               !.err = IF seen # w.entries
                       THEN Some("failed to load directory entry " \o IoError)
                       ELSE None,
               !.log = @ \o <<[op |-> "read_dir", ok |-> TRUE],
                              [op |-> "remove_dir_all", targets |-> seen,
                               failed |-> seen \cap in.rm_fail]>>,
               !.entries = @ \ removed,
               !.files = RemoveAll(emptied, @),
               !.execs = RemoveAll(emptied, @)]

Cleanup(w, version_dir, in) ==
    IF ~in.list
    THEN [w EXCEPT !.err = Some("failed to list working directory " \o IoError),
                   !.log = @ \o <<[op |-> "read_dir", ok |-> FALSE]>>]
    ELSE LET seen == in.seen \cap w.entries
             targets == {e \in seen : e # version_dir}
             removed == targets \ in.rm_fail
             emptied == removed \cup (targets \cap in.rm_lost)
         IN [w EXCEPT
               !.err = IF seen # w.entries
                       THEN Some("failed to load directory entry " \o IoError)
                       ELSE None,
               !.log = @ \o <<[op |-> "read_dir", ok |-> TRUE],
                              [op |-> "remove_dir_all", targets |-> targets,
                               failed |-> targets \cap in.rm_fail]>>,
               !.entries = @ \ removed,
               !.files = RemoveAll(emptied, @),
               !.execs = RemoveAll(emptied, @)]

\* Fetch with the file check of line 103 dropped: the archive is fetched again
Fetch_AlwaysDownload(w, os, a, version, in) ==
    LET version_dir == VersionDir(version)
        binary_path == BinaryPath(os, version)
        bin == Unpacked(os, version_dir)
        probed == [w EXCEPT !.log = @ \o <<[op |-> "metadata", path |-> binary_path]>>]
        started == [probed EXCEPT !.log = @ \o
                      <<[op |-> "set_status", status |-> "Downloading"],
                        [op |-> "download_file",
                         url |-> DownloadUrl(a, os, version),
                         dir |-> version_dir,
                         type |-> DownloadedFileType(os)]>>]
        unpacked == [started EXCEPT !.entries = @ \cup {version_dir},
                                    !.files = @ \cup {bin}]
        tried == [unpacked EXCEPT !.log = @ \o
                      <<[op |-> "make_file_executable", path |-> binary_path]>>]
    IN  IF in.dl = "err"
        THEN [started EXCEPT !.err = Some("failed to download file: " \o DownloadError)]
        ELSE IF ~in.exec THEN [tried EXCEPT !.err = Some(ExecError)]
        ELSE Cleanup([tried EXCEPT !.execs = @ \cup {bin}], version_dir, in)

\* Fetch with the result of make_file_executable dropped
Fetch_ExecUnchecked(w, os, a, version, in) ==
    LET version_dir == VersionDir(version)
        binary_path == BinaryPath(os, version)
        bin == Unpacked(os, version_dir)
        probed == [w EXCEPT !.log = @ \o <<[op |-> "metadata", path |-> binary_path]>>]
        started == [probed EXCEPT !.log = @ \o
                      <<[op |-> "set_status", status |-> "Downloading"],
                        [op |-> "download_file",
                         url |-> DownloadUrl(a, os, version),
                         dir |-> version_dir,
                         type |-> DownloadedFileType(os)]>>]
        unpacked == [started EXCEPT !.entries = @ \cup {version_dir},
                                    !.files = @ \cup {bin}]
        tried == [unpacked EXCEPT !.log = @ \o
                      <<[op |-> "make_file_executable", path |-> binary_path]>>]
    IN  IF IsFile(binary_path, w.files) THEN probed
        ELSE IF in.dl = "err"
        THEN [started EXCEPT !.err = Some("failed to download file: " \o DownloadError)]
        ELSE Cleanup([tried EXCEPT !.execs = IF in.exec THEN @ \cup {bin} ELSE @],
                     version_dir, [in EXCEPT !.list = TRUE, !.seen = tried.entries])

(***************************************************************************)
(* lines 103-129: the fetch of a missing binary.  w carries the working    *)
(* directory, the log of host calls and the error, if any.                 *)
(***************************************************************************)
Fetch(w, os, a, version, in) ==
    LET version_dir == VersionDir(version)
        binary_path == BinaryPath(os, version)
        bin == Unpacked(os, version_dir)
        probed == [w EXCEPT !.log = @ \o <<[op |-> "metadata", path |-> binary_path]>>]
        started == [probed EXCEPT !.log = @ \o
                      <<[op |-> "set_status", status |-> "Downloading"],
                        [op |-> "download_file",
                         url |-> DownloadUrl(a, os, version),
                         dir |-> version_dir,
                         type |-> DownloadedFileType(os)]>>]
        unpacked == [started EXCEPT !.entries = @ \cup {version_dir},
                                    !.files = @ \cup {bin}]
        tried == [unpacked EXCEPT !.log = @ \o
                      <<[op |-> "make_file_executable", path |-> binary_path]>>]
    IN  IF IsFile(binary_path, w.files) THEN probed
        ELSE IF in.dl = "err"
        THEN [started EXCEPT !.err = Some("failed to download file: " \o DownloadError)]
        ELSE IF ~in.exec
        THEN [tried EXCEPT !.err = Some(ExecError)]
        ELSE Cleanup([tried EXCEPT !.execs = @ \cup {bin}], version_dir, in)

(***************************************************************************)
(* lines 18-137: ZigExtension::language_server_binary on the instance and  *)
(* working directory w = [cached, entries, files, execs], under the        *)
(* settings st, the PATH lookup which and the release feed rel.  The       *)
(* outcome names the stage that returned, the Result, the host calls in    *)
(* order, and the instance and working directory afterwards.               *)
(***************************************************************************)
Outcome(stage, result, log, w) ==
    [stage |-> stage, result |-> result, log |-> log, cached |-> w.cached,
     entries |-> w.entries, files |-> w.files, execs |-> w.execs]

\* NetworkStage with the cache written as soon as binary_path is known
NetworkStage_EagerCache(w, os, a, st, rel, log, in) ==
    LET args == SettingsArgs(st)
        log2 == log \o <<[op |-> "set_status", status |-> "CheckingForUpdate"],
                         [op |-> "latest_github_release", repo |-> "zigtools/zls",
                          require_assets |-> TRUE, pre_release |-> FALSE]>>
    IN  IF ~rel.ok THEN Outcome("network", Err(rel.err), log2, w)
        ELSE LET f == Fetch([entries |-> w.entries, files |-> w.files,
                             execs |-> w.execs, log |-> log2, err |-> None],
                            os, a, rel.version, in)
                 binary_path == BinaryPath(os, rel.version)
                 after == [cached |-> Some(binary_path), entries |-> f.entries,
                           files |-> f.files, execs |-> f.execs]
             IN  IF IsSome(f.err)
                 THEN Outcome("network", Err(Unwrap(f.err)), f.log, after)
                 ELSE Outcome("network", Ok(binary_path, args, Environment(os)),
                              f.log, after)

NetworkStage(w, os, a, st, rel, log, in) ==
    LET args == SettingsArgs(st)
        log2 == log \o <<[op |-> "set_status", status |-> "CheckingForUpdate"],
                         [op |-> "latest_github_release", repo |-> "zigtools/zls",
                          require_assets |-> TRUE, pre_release |-> FALSE]>>
    IN  IF ~rel.ok THEN Outcome("network", Err(rel.err), log2, w)
        ELSE LET f == Fetch([entries |-> w.entries, files |-> w.files,
                             execs |-> w.execs, log |-> log2, err |-> None],
                            os, a, rel.version, in)
                 binary_path == BinaryPath(os, rel.version)
                 after == [cached |-> w.cached, entries |-> f.entries,
                           files |-> f.files, execs |-> f.execs]
             IN  IF IsSome(f.err)
                 THEN Outcome("network", Err(Unwrap(f.err)), f.log, after)
                 ELSE Outcome("network", Ok(binary_path, args, Environment(os)),
                              f.log, [after EXCEPT !.cached = Some(binary_path)])

CacheStage(w, os, a, st, rel, log, in) ==
    LET log2 == log \o <<[op |-> "read_cache"]>>
        log3 == log2 \o <<[op |-> "metadata", path |-> Unwrap(w.cached)]>>
    IN  IF IsSome(w.cached)
        THEN IF CacheHit(w.cached, w.files)
             THEN Outcome("cache", Ok(Unwrap(w.cached), SettingsArgs(st), Environment(os)),
                          log3, w)
             ELSE NetworkStage(w, os, a, st, rel, log3, in)
        ELSE NetworkStage(w, os, a, st, rel, log2, in)

\* PathStage with the binary found on PATH returned without arguments
PathStage_NoArgs(w, os, a, st, which, rel, log, in) ==
    LET log2 == log \o <<[op |-> "which", name |-> "zls"]>>
    IN  IF IsSome(which)
        THEN Outcome("path", Ok(Unwrap(which), None, Environment(os)), log2, w)
        ELSE CacheStage(w, os, a, st, rel, log2, in)

\* PathStage with a valid cache entry consulted ahead of the PATH lookup
PathStage_CacheFirst(w, os, a, st, which, rel, log, in) ==
    LET log2 == log \o <<[op |-> "which", name |-> "zls"]>>
    IN  IF CacheHit(w.cached, w.files)
        THEN Outcome("cache", Ok(Unwrap(w.cached), SettingsArgs(st), Environment(os)),
                     log \o <<[op |-> "read_cache"],
                              [op |-> "metadata", path |-> Unwrap(w.cached)]>>, w)
        ELSE IF IsSome(which)
        THEN Outcome("path", Ok(Unwrap(which), SettingsArgs(st), Environment(os)), log2, w)
        ELSE CacheStage(w, os, a, st, rel, log2, in)

PathStage(w, os, a, st, which, rel, log, in) ==
    LET log2 == log \o <<[op |-> "which", name |-> "zls"]>>
    IN  IF IsSome(which)
        THEN Outcome("path", Ok(Unwrap(which), SettingsArgs(st), Environment(os)), log2, w)
        ELSE CacheStage(w, os, a, st, rel, log2, in)

\* language_server_binary with the PATH lookup ahead of the settings
language_server_binary_PathFirst(w, os, a, st, which, rel, in) ==
    LET log == <<[op |-> "for_worktree", name |-> "zls"]>>
    IN  IF IsSome(which) \/ ~IsSome(SettingsPath(st))
        THEN PathStage(w, os, a, st, which, rel, log, in)
        ELSE Outcome("settings",
                     Ok(Unwrap(SettingsPath(st)), SettingsArgs(st), Environment(os)),
                     log, w)

language_server_binary(w, os, a, st, which, rel, in) ==
    LET log == <<[op |-> "for_worktree", name |-> "zls"]>>
    IN  IF IsSome(SettingsPath(st))
        THEN Outcome("settings",
                     Ok(Unwrap(SettingsPath(st)), SettingsArgs(st), Environment(os)),
                     log, w)
        ELSE PathStage(w, os, a, st, which, rel, log, in)

(***************************************************************************)
(* The resolution as a state machine: calls of language_server_binary on   *)
(* one instance, between changes of its environment.                       *)
(***************************************************************************)
World == [cached |-> cached_binary_path, entries |-> entries, files |-> files,
          execs |-> execs]

\* line 152: one call.  The draws are taken only where the call consults them.
\* The record kept in call holds the instance and working directory the call
\* started from (pre), its draws (in), whether it follows another call with
\* no change of the environment in between (again) and whether that call
\* returned a binary (prev_ok).
LanguageServerBinary ==
    LET w == World
        probe == language_server_binary(w, platform, arch, settings, path_zls,
                                        release, NoInputs)
        fetches == \E i \in 1..Len(probe.log) : probe.log[i].op = "download_file"
        version_dir == IF release.ok THEN VersionDir(release.version) ELSE ""
    IN  \E dl \in IF fetches THEN {"ok", "err"} ELSE {"ok"} :
        \E ex \in IF fetches /\ dl = "ok" THEN BOOLEAN ELSE {TRUE} :
        \E ls \in IF fetches /\ dl = "ok" /\ ex THEN BOOLEAN ELSE {TRUE} :
        \E seen \in IF fetches /\ dl = "ok" /\ ex /\ ls
                    THEN SUBSET probe.entries ELSE {{}} :
        \E rmf \in SUBSET (seen \ {version_dir}) :
        \E lost \in SUBSET {e \in rmf : \E f \in files : f.dir = e} :
            LET in == [dl |-> dl, exec |-> ex, list |-> ls, seen |-> seen,
                       rm_fail |-> rmf, rm_lost |-> lost]
                out == language_server_binary(w, platform, arch, settings,
                                              path_zls, release, in)
            IN  /\ cached_binary_path' = out.cached
                /\ entries' = out.entries
                /\ files' = out.files
                /\ execs' = out.execs
                /\ call' = Some([pre |-> w, in |-> in,
                                 again |-> IsSome(call),
                                 prev_ok |-> IsSome(call) /\ Unwrap(call).result.ok,
                                 stage |-> out.stage, result |-> out.result,
                                 log |-> out.log])
                /\ UNCHANGED <<platform, arch, settings, path_zls, release, dapVars>>

\* the user edits the "zls" settings of the worktree
ChangeSettings ==
    \E st \in LspSettings \ {settings} :
        /\ settings' = st
        /\ call' = None
        /\ UNCHANGED <<platform, arch, cached_binary_path, path_zls, release,
                       entries, files, execs, dapVars>>

\* a zls appears on, or disappears from, the worktree's PATH
ChangePath ==
    \E p \in WhichResults \ {path_zls} :
        /\ path_zls' = p
        /\ call' = None
        /\ UNCHANGED <<platform, arch, cached_binary_path, settings, release,
                       entries, files, execs, dapVars>>

\* the release feed changes: a release is published, or the query starts failing
ChangeRelease ==
    \E r \in ReleaseResults \ {release} :
        /\ release' = r
        /\ call' = None
        /\ UNCHANGED <<platform, arch, cached_binary_path, settings, path_zls,
                       entries, files, execs, dapVars>>

\* an entry of the working directory is removed from outside
RemoveEntry ==
    \E e \in entries :
        /\ entries' = entries \ {e}
        /\ files' = RemoveAll({e}, files)
        /\ execs' = RemoveAll({e}, execs)
        /\ call' = None
        /\ UNCHANGED <<platform, arch, cached_binary_path, settings, path_zls,
                       release, dapVars>>

\* an entry that is no version directory appears in the working directory
CreateEntry ==
    /\ OtherEntry \notin entries
    /\ entries' = entries \cup {OtherEntry}
    /\ call' = None
    /\ UNCHANGED <<platform, arch, cached_binary_path, settings, path_zls,
                   release, files, execs, dapVars>>

(***************************************************************************)
(* The debug locator.  Paths the code parses are sequences of characters.  *)
(***************************************************************************)
\* line 4
ZIG_TEST_EXE_NAME == "zig_test"

RECURSIVE Str(_)
\* the String of a sequence of characters (to_string_lossy().into_owned())
Str(chars) == IF chars = <<>> THEN "" ELSE Head(chars) \o Str(Tail(chars))

RECURSIVE SplitPath(_)
\* the segments of a path between its separators; the extension is built
\* for wasm32-wasi, where the only separator of std::path is "/"
SplitPath(p) ==
    IF p = <<>> THEN << <<>> >>
    ELSE LET rest == SplitPath(Tail(p))
         IN  IF Head(p) = "/" THEN << <<>> >> \o rest
             ELSE << <<Head(p)>> \o rest[1] >> \o Tail(rest)

\* Path::components: the root, a leading ".", and every segment that is
\* neither empty nor "."
Components(p) ==
    LET segs == SplitPath(p)
        lead == IF p # <<>> /\ Head(p) = "/" THEN <<[kind |-> "RootDir", name |-> <<>>]>>
                ELSE IF segs[1] = <<".">> THEN <<[kind |-> "CurDir", name |-> <<>>]>>
                ELSE <<>>
        kept == SelectSeq(segs, LAMBDA c : c # <<>> /\ c # <<".">>)
    IN  lead \o [i \in 1..Len(kept) |->
                   IF kept[i] = <<".", ".">>
                   THEN [kind |-> "ParentDir", name |-> <<>>]
                   ELSE [kind |-> "Normal", name |-> kept[i]]]

\* Path::file_name: the last component, if it is a normal one
FileName(p) ==
    LET cs == Components(p)
    IN  IF cs # <<>> /\ cs[Len(cs)].kind = "Normal"
        THEN Some(cs[Len(cs)].name) ELSE None

\* PathBuf::join of a directory and a relative name
PathJoin(dir, name) ==
    Str(dir) \o (IF dir # <<>> /\ dir[Len(dir)] # "/" THEN "/" ELSE "") \o name

\* get_project_name without the file_name step
get_project_name_WholeCwd(t) ==
    IF IsSome(t.cwd) THEN Some(Str(Unwrap(t.cwd))) ELSE None

\* lines 288-292
get_project_name(t) ==
    IF IsSome(t.cwd) /\ IsSome(FileName(Unwrap(t.cwd)))
    THEN Some(Str(Unwrap(FileName(Unwrap(t.cwd)))))
    ELSE None

\* get_test_exe_path with the name appended to the directory's text
get_test_exe_path_Concat(cd) ==
    IF IsSome(cd) THEN Some(Str(Unwrap(cd)) \o ZIG_TEST_EXE_NAME) ELSE None

\* lines 294-302; cd is what std::env::current_dir() returns
get_test_exe_path(cd) ==
    IF IsSome(cd) THEN Some(PathJoin(Unwrap(cd), ZIG_TEST_EXE_NAME)) ELSE None

\* the outcome of a handler: a returned value, or a panic (unwrap of None)
Returned(v) == [panic |-> FALSE, value |-> v]

Panicked == [panic |-> TRUE]

\* lines 203-211: the arguments of a test task on Windows
\* QuotedArgs with the quotes put around the first argument after "test" only
QuotedArgs_FirstOnly(args) ==
    <<"test">> \o [i \in 1..(Len(args) - 1) |->
                     IF i = 1 THEN "'" \o args[i + 1] \o "'" ELSE args[i + 1]]

QuotedArgs(args) ==
    <<"test">> \o [i \in 1..(Len(args) - 1) |-> "'" \o args[i + 1] \o "'"]

\* lines 198-228: the build template of a test task
TestTemplate(t, os, cd) ==
    LET test_exe_path == Unwrap(get_test_exe_path(cd))
        args == IF os = "Windows" THEN QuotedArgs(t.args) ELSE t.args
        emit == IF os = "Windows"
                THEN "-femit-bin='" \o test_exe_path \o ".exe'"
                ELSE "-femit-bin=" \o test_exe_path
    IN  [label |-> "zig test --test-no-exec", command |-> "zig",
         args |-> args \o <<"--test-no-exec", emit>>,
         env |-> t.env, cwd |-> t.cwd]

\* BuildTemplate with the task's arguments after "build" as the build step
BuildTemplate_Rest(t) ==
    [label |-> "zig build", command |-> "zig", args |-> Tail(t.args),
     env |-> t.env, cwd |-> t.cwd]

\* lines 189-195: the build template of a build-run task
BuildTemplate(t) ==
    [label |-> "zig build", command |-> "zig", args |-> <<"build">>,
     env |-> t.env, cwd |-> t.cwd]

\* lines 232-248
DebugScenario(template, locator_name, resolved_label, debug_adapter_name) ==
    [adapter |-> debug_adapter_name, label |-> resolved_label, config |-> "null",
     tcp_connection |-> None,
     build |-> Some([template |-> template, locator_name |-> Some(locator_name)])]

\* dap_locator_create_scenario with the second token of a build task ignored
dap_locator_create_scenario_AnyBuild(locator_name, t, resolved_label, debug_adapter_name, os, cd) ==
    IF t.command # "zig" THEN Returned(None)
    ELSE IF Len(t.args) >= 1 /\ t.args[1] = "build"
    THEN Returned(Some(DebugScenario(BuildTemplate(t), locator_name,
                                     resolved_label, debug_adapter_name)))
    ELSE IF Len(t.args) >= 1 /\ t.args[1] = "test"
    THEN IF get_test_exe_path(cd) = None THEN Panicked
         ELSE Returned(Some(DebugScenario(TestTemplate(t, os, cd), locator_name,
                                          resolved_label, debug_adapter_name)))
    ELSE Returned(None)

\* lines 172-249
dap_locator_create_scenario(locator_name, t, resolved_label, debug_adapter_name, os, cd) ==
    IF t.command # "zig" THEN Returned(None)
    ELSE IF Len(t.args) >= 1 /\ t.args[1] = "build"
    THEN IF Len(t.args) >= 2 /\ t.args[2] = "run"
         THEN Returned(Some(DebugScenario(BuildTemplate(t), locator_name,
                                          resolved_label, debug_adapter_name)))
         ELSE Returned(None)
    ELSE IF Len(t.args) >= 1 /\ t.args[1] = "test"
    THEN IF get_test_exe_path(cd) = None THEN Panicked
         ELSE Returned(Some(DebugScenario(TestTemplate(t, os, cd), locator_name,
                                          resolved_label, debug_adapter_name)))
    ELSE Returned(None)

LaunchRequest(program, t) ==
    [program |-> program, cwd |-> t.cwd, args |-> <<>>, envs |-> t.env]

\* run_dap_locator with every task that is no build task taken for a test
run_dap_locator_DefaultTest(t, cd) ==
    IF Len(t.args) >= 1 /\ t.args[1] = "build"
    THEN IF get_project_name(t) = None
         THEN Returned([ok |-> FALSE, err |-> "Failed to get project name"])
         ELSE Returned([ok |-> TRUE,
                        launch |-> LaunchRequest(
                            "zig-out/bin/" \o Unwrap(get_project_name(t)), t)])
    ELSE IF get_test_exe_path(cd) = None THEN Panicked
    ELSE Returned([ok |-> TRUE,
                   launch |-> LaunchRequest(Unwrap(get_test_exe_path(cd)), t)])

\* lines 251-285
run_dap_locator(t, cd) ==
    IF Len(t.args) >= 1 /\ t.args[1] = "build"
    THEN IF get_project_name(t) = None
         THEN Returned([ok |-> FALSE, err |-> "Failed to get project name"])
         ELSE Returned([ok |-> TRUE,
                        launch |-> LaunchRequest(
                            "zig-out/bin/" \o Unwrap(get_project_name(t)), t)])
    ELSE IF Len(t.args) >= 1 /\ t.args[1] = "test"
    THEN IF get_test_exe_path(cd) = None THEN Panicked
         ELSE Returned([ok |-> TRUE,
                        launch |-> LaunchRequest(Unwrap(get_test_exe_path(cd)), t)])
    ELSE Returned([ok |-> FALSE, err |-> "Unsupported build task"])

(***************************************************************************)
(* The tasks the locator is given.                                         *)
(***************************************************************************)
Commands == {"zig", "cargo"}

ArgTokens == {"build", "run", "test", "fmt", "foo.zig"}

ArgLists == UNION {[1..n -> ArgTokens] : n \in 0..MaxArgs}

\* "/home/u/myproj"
HomeProj == <<"/", "h", "o", "m", "e", "/", "u", "/", "m", "y", "p", "r", "o", "j">>

\* "C:\Users\u\myproj"
WinProj == <<"C", ":", "\\", "U", "s", "e", "r", "s", "\\", "u", "\\",
             "m", "y", "p", "r", "o", "j">>

Cwds == {None, Some(HomeProj), Some(HomeProj \o <<"/">>), Some(HomeProj \o <<"/", ".">>),
         Some(HomeProj \o <<"/", ".", ".">>), Some(<<"/">>), Some(<<>>),
         Some(<<"m", "y", "p", "r", "o", "j">>), Some(WinProj)}

Envs == {<<>>, << <<"ZIG_LOCAL_CACHE_DIR", ".cache">> >>}

Tasks == [command : Commands, args : ArgLists, cwd : Cwds, env : Envs]

\* the values of std::env::current_dir(): an error, or the extension's
\* work directory
CurrentDirs == {None, Some(<<"/", "e", "x", "t">>),
                Some(<<"/", "e", "x", "t", "/", "z", "i", "g">>)}

LocatorName == "zig"

ResolvedLabel == "debug: zig"

DebugAdapterName == "CodeLLDB"

\* lines 172-249: the host asks for the scenario of the task
DapLocatorCreateScenario ==
    /\ scenario' = Some(dap_locator_create_scenario(
                            LocatorName, task, ResolvedLabel, DebugAdapterName,
                            platform, current_dir))
    /\ UNCHANGED <<platform, arch, lspVars, current_dir, task, request, located>>

\* lines 251-285: the host asks for the launch request of the task
RunDapLocator ==
    /\ request' = Some(run_dap_locator(task, current_dir))
    /\ UNCHANGED <<platform, arch, lspVars, current_dir, task, scenario, located>>

\* the task the host makes of a scenario's build template: the template's
\* command, args, cwd and env
TemplateTask(template) ==
    [command |-> template.command, args |-> template.args,
     cwd |-> template.cwd, env |-> template.env]

\* lines 251-285: the host resolves the build step of the scenario it was
\* given, asking for the launch request of the scenario's build template
RunDapLocatorOnTemplate ==
    /\ IsSome(scenario)
    /\ ~Unwrap(scenario).panic
    /\ IsSome(Unwrap(scenario).value)
    /\ located' = Some(run_dap_locator(
                           TemplateTask(Unwrap(Unwrap(Unwrap(scenario).value).build).template),
                           current_dir))
    /\ UNCHANGED <<platform, arch, lspVars, current_dir, task, scenario, request>>

\* a new instance, about to be handed a task
InitTask ==
    /\ platform \in Os
    /\ arch = "X8664"
    /\ cached_binary_path = None
    /\ settings = [ok |-> TRUE, binary |-> None]
    /\ path_zls = None
    /\ release = [ok |-> FALSE, err |-> "no release found"]
    /\ entries = {}
    /\ files = {}
    /\ execs = {}
    /\ call = None
    /\ current_dir \in CurrentDirs
    /\ task \in Tasks
    /\ scenario = None
    /\ request = None
    /\ located = None

NextTask ==
    \/ DapLocatorCreateScenario
    \/ RunDapLocator
    \/ RunDapLocatorOnTemplate

SpecTask == InitTask /\ [][NextTask]_vars

NoTask == [command |-> "", args |-> <<>>, cwd |-> None, env |-> <<>>]

\* lines 141-145: a new instance, in an empty working directory.  The
\* architecture is read at lines 77-81 only, for the asset name, and Mac
\* takes the branch of Linux at every line but 84 (the asset name again);
\* SpecFetch below ranges over all platforms and architectures.
Init ==
    /\ platform \in {"Linux", "Windows"}
    /\ arch = "X8664"
    /\ cached_binary_path = None
    /\ settings = [ok |-> TRUE, binary |-> None]
    /\ path_zls = None
    /\ release \in ReleaseResults
    /\ entries = {}
    /\ files = {}
    /\ execs = {}
    /\ call = None
    /\ current_dir = None
    /\ task = NoTask
    /\ scenario = None
    /\ request = None
    /\ located = None

Next ==
    \/ LanguageServerBinary
    \/ ChangeSettings
    \/ ChangePath
    \/ ChangeRelease
    \/ RemoveEntry
    \/ CreateEntry

Spec == Init /\ [][Next]_vars

(***************************************************************************)
(* The fetch on every platform: an instance whose worktree configures no   *)
(* binary and has no zls on its PATH, on each (os, arch) pair.             *)
(***************************************************************************)
InitFetch ==
    /\ platform \in Os
    /\ arch \in Architecture
    /\ cached_binary_path = None
    /\ settings = [ok |-> TRUE, binary |-> None]
    /\ path_zls = None
    /\ release \in ReleaseResults
    /\ entries = {}
    /\ files = {}
    /\ execs = {}
    /\ call = None
    /\ current_dir = None
    /\ task = NoTask
    /\ scenario = None
    /\ request = None
    /\ located = None

NextFetch ==
    \/ LanguageServerBinary
    \/ ChangeRelease
    \/ RemoveEntry

SpecFetch == InitFetch /\ [][NextFetch]_vars

(***************************************************************************)
(* Resolution retried: one instance, started in an empty working           *)
(* directory, called again and again while the release feed stays as it    *)
(* is.  Nothing removes the version directory here (cleanup spares it,     *)
(* line 125, and no other release is ever fetched), so execs is the set of *)
(* all paths make_file_executable has succeeded on since the start.        *)
(***************************************************************************)
InitRetry ==
    /\ platform \in Os
    /\ arch \in Architecture
    /\ cached_binary_path = None
    /\ settings = [ok |-> TRUE, binary |-> None]
    /\ path_zls = None
    /\ release \in ReleaseResults
    /\ entries = {}
    /\ files = {}
    /\ execs = {}
    /\ call = None
    /\ current_dir = None
    /\ task = NoTask
    /\ scenario = None
    /\ request = None
    /\ located = None

NextRetry ==
    \/ LanguageServerBinary
    \/ CreateEntry

SpecRetry == InitRetry /\ [][NextRetry]_vars

(***************************************************************************)
(* Vocabulary of the properties.                                           *)
(***************************************************************************)
\* the host calls of the last call, by name
CallOps == {Unwrap(call).log[i].op : i \in 1..Len(Unwrap(call).log)}

\* the events of the last call's log with the given name
CallEvents(op) ==
    {Unwrap(call).log[i] : i \in {j \in 1..Len(Unwrap(call).log) :
                                     Unwrap(call).log[j].op = op}}

NetworkOps == {"latest_github_release", "download_file"}

(***************************************************************************)
(* C1  Override precedence.  Whenever the settings name an explicit binary *)
(* path, the call returns exactly that path with the configured arguments  *)
(* (nothing checks that the path exists), queries no release, downloads    *)
(* nothing and does not read cached_binary_path, whatever PATH, the cache  *)
(* and the working directory hold; it leaves them as they were.            *)
(***************************************************************************)
C1_OverridePrecedence ==
    (/\ IsSome(call)
     /\ settings.ok
     /\ IsSome(settings.binary)
     /\ IsSome(settings.binary[1].path))
    => LET c == call[1]
       IN  /\ c.result.ok
           /\ c.result.path = settings.binary[1].path[1]
           /\ c.result.args = settings.binary[1].arguments
           /\ CallOps \cap (NetworkOps \cup {"read_cache"}) = {}
           /\ cached_binary_path = c.pre.cached
           /\ entries = c.pre.entries
           /\ files = c.pre.files

\* an explicit path with arguments, while PATH has a zls, the cache is set
\* and the working directory holds a binary
C1_Witness ==
    /\ IsSome(call)
    /\ settings.ok
    /\ IsSome(settings.binary)
    /\ IsSome(settings.binary[1].path)
    /\ IsSome(settings.binary[1].arguments)
    /\ IsSome(path_zls)
    /\ IsSome(cached_binary_path)
    /\ files # {}
    /\ release.ok
    /\ call[1].stage = "settings"

(***************************************************************************)
(* C2  Idempotence.  As stated: a call that follows another call on the    *)
(* same instance, with nothing of the environment changed in between and   *)
(* the binary of the latest release already in the working directory,      *)
(* makes no network call.                                                  *)
(***************************************************************************)
C2_Downloaded ==
    /\ release.ok
    /\ IsFile(BinaryPath(platform, release.version), call[1].pre.files)

C2_Original ==
    (IsSome(call) /\ call[1].again /\ C2_Downloaded)
    => CallOps \cap NetworkOps = {}

(***************************************************************************)
(* C2  amended: a call that follows another call, with nothing of the     *)
(* environment changed in between and the binary already downloaded,       *)
(* never calls download_file and returns a binary.  It queries             *)
(* latest_github_release only when the call before it returned an error    *)
(* and left the cache without a valid entry; that query is then its only   *)
(* network call, and it returns the downloaded binary and caches it.       *)
(***************************************************************************)
C2_Queries == "latest_github_release" \in CallOps

C2_Idempotence ==
    (IsSome(call) /\ call[1].again /\ C2_Downloaded)
    => /\ "download_file" \notin CallOps
       /\ call[1].result.ok
       /\ call[1].prev_ok => ~C2_Queries
       /\ C2_Queries
            <=> /\ ~call[1].prev_ok
                /\ ~CacheHit(call[1].pre.cached, call[1].pre.files)
       /\ C2_Queries
            => /\ Cardinality(CallEvents("latest_github_release")) = 1
               /\ call[1].result.path = BinaryPath(platform, release.version)
               /\ cached_binary_path = Some(call[1].result.path)

\* the second call, after a first that downloaded, returns from the cache
C2_Witness ==
    /\ IsSome(call)
    /\ call[1].again
    /\ call[1].prev_ok
    /\ C2_Downloaded
    /\ call[1].stage = "cache"
    /\ call[1].result.ok
    /\ CallOps \cap NetworkOps = {}

(***************************************************************************)
(* C3  Stale cache fallback.  When cached_binary_path is set but is no     *)
(* regular file at lookup time, the call that reaches the cache lookup     *)
(* goes on as a cold start does: it emits CheckingForUpdate, queries the   *)
(* latest release and downloads exactly if the binary is missing; its      *)
(* result, its host calls after the lookup and the working directory it    *)
(* leaves are those of the same call on an instance with an empty cache,   *)
(* and on success the cache holds the returned path.                       *)
(***************************************************************************)
C3_Stale ==
    /\ IsSome(call)
    /\ IsSome(call[1].pre.cached)
    /\ ~IsFile(call[1].pre.cached[1], call[1].pre.files)
    /\ call[1].stage \notin {"settings", "path"}

C3_StaleCacheFallback ==
    C3_Stale
    => LET c == call[1]
           cold == language_server_binary([c.pre EXCEPT !.cached = None], platform,
                                          arch, settings, path_zls, release, c.in)
           probe == [op |-> "metadata", path |-> c.pre.cached[1]]
           statuses == CallEvents("set_status")
       IN  /\ c.stage = "network"
           /\ cold.stage = "network"
           /\ c.result = cold.result
           /\ SelectSeq(c.log, LAMBDA e : e # probe)
                = SelectSeq(cold.log, LAMBDA e : e # probe)
           /\ [op |-> "set_status", status |-> "CheckingForUpdate"] \in statuses
           /\ "latest_github_release" \in CallOps
           /\ ("download_file" \in CallOps
                 <=> /\ release.ok
                     /\ ~IsFile(BinaryPath(platform, release.version), c.pre.files))
           /\ entries = cold.entries
           /\ files = cold.files
           /\ (c.result.ok => cached_binary_path = Some(c.result.path))
           /\ (~c.result.ok => cached_binary_path = c.pre.cached)

\* a stale entry, a fresh download, and the cache overwritten
C3_Witness ==
    /\ C3_Stale
    /\ call[1].result.ok
    /\ "download_file" \in CallOps
    /\ cached_binary_path = Some(call[1].result.path)
    /\ cached_binary_path # call[1].pre.cached

(***************************************************************************)
(* Vocabulary of the locator's properties.                                 *)
(***************************************************************************)
FirstArgIs(tok) == Len(task.args) >= 1 /\ task.args[1] = tok

\* the build template of the scenario last returned
ScenarioTemplate == scenario[1].value[1].build[1].template

ScenarioReturned == IsSome(scenario) /\ ~scenario[1].panic /\ IsSome(scenario[1].value)

NoScenario == IsSome(scenario) /\ ~scenario[1].panic /\ scenario[1].value = None

(***************************************************************************)
(* C4  Build-run translation.  For a task with command "zig" the scenario  *)
(* carries the build template {label "zig build", command "zig", args      *)
(* ["build"], env and cwd of the task} exactly when the first two          *)
(* arguments are "build", "run"; there is no scenario when "build" is      *)
(* followed by anything else or by nothing, when the first argument is     *)
(* neither "build" nor "test", when there are no arguments, and when the   *)
(* command is not "zig".                                                   *)
(***************************************************************************)
C4_BuildRun ==
    /\ task.command = "zig"
    /\ Len(task.args) >= 2
    /\ task.args[1] = "build"
    /\ task.args[2] = "run"

C4_BuildRunTranslation ==
    IsSome(scenario)
    => /\ C4_BuildRun
          => /\ ScenarioReturned
             /\ ScenarioTemplate = [label |-> "zig build", command |-> "zig",
                                    args |-> <<"build">>, env |-> task.env,
                                    cwd |-> task.cwd]
       /\ (ScenarioReturned /\ ScenarioTemplate.label = "zig build") => C4_BuildRun
       /\ (task.command = "zig" /\ FirstArgIs("build") /\ ~C4_BuildRun) => NoScenario
       /\ (~FirstArgIs("build") /\ ~FirstArgIs("test")) => NoScenario
       /\ task.args = <<>> => NoScenario
       /\ task.command # "zig" => NoScenario

\* a build-run task with a cwd and an environment, translated
C4_Witness ==
    /\ C4_BuildRun
    /\ ScenarioReturned
    /\ IsSome(task.cwd)
    /\ task.env # <<>>
    /\ ScenarioTemplate.args = <<"build">>

(***************************************************************************)
(* C5  Test translation off Windows.  For a task with command "zig" whose  *)
(* first argument is "test", with the current directory available, the     *)
(* template's args are the task's arguments, unchanged and in order,       *)
(* followed by "--test-no-exec" and "-femit-bin=<current dir>/zig_test";   *)
(* env and cwd are the task's.                                             *)
(***************************************************************************)
C5_Case ==
    /\ IsSome(scenario)
    /\ platform # "Windows"
    /\ task.command = "zig"
    /\ FirstArgIs("test")
    /\ IsSome(current_dir)

C5_TestTranslation ==
    C5_Case
    => /\ ScenarioReturned
       /\ ScenarioTemplate.command = "zig"
       /\ ScenarioTemplate.args
            = task.args \o <<"--test-no-exec",
                             "-femit-bin=" \o Str(current_dir[1]) \o "/zig_test">>
       /\ ScenarioTemplate.env = task.env
       /\ ScenarioTemplate.cwd = task.cwd

\* zig test foo.zig on Linux
C5_Witness ==
    /\ C5_Case
    /\ platform = "Linux"
    /\ task.args = <<"test", "foo.zig">>
    /\ ScenarioReturned
    /\ ScenarioTemplate.args[3] = "--test-no-exec"

(***************************************************************************)
(* C6  Launch-request project naming.  For a task whose first argument is  *)
(* "build", whatever follows, and whose cwd ends in a path segment, the    *)
(* launch request has program "zig-out/bin/<that segment>", no args, and   *)
(* the task's cwd and environment; cwd "/home/u/myproj" gives              *)
(* "zig-out/bin/myproj".  The final segment is what lies between the last  *)
(* "/" and the end of the path, trailing "/" set aside; "." and ".." are   *)
(* no segments.                                                            *)
(***************************************************************************)
C6_End(p) == CHOOSE n \in 1..Len(p) :
                 p[n] # "/" /\ \A k \in (n + 1)..Len(p) : p[k] = "/"

C6_Start(p) == CHOOSE m \in 1..C6_End(p) :
                   /\ \A k \in m..C6_End(p) : p[k] # "/"
                   /\ (m = 1 \/ p[m - 1] = "/")

C6_Segment(p) == SubSeq(p, C6_Start(p), C6_End(p))

C6_HasSegment(p) ==
    /\ \E n \in 1..Len(p) : p[n] # "/"
    /\ C6_Segment(p) \notin {<<".">>, <<".", ".">>}

C6_Case ==
    /\ IsSome(request)
    /\ FirstArgIs("build")
    /\ IsSome(task.cwd)
    /\ C6_HasSegment(task.cwd[1])

C6_ProjectNaming ==
    C6_Case
    => LET r == request[1]
       IN  /\ ~r.panic
           /\ r.value.ok
           /\ r.value.launch.program
                = "zig-out/bin/" \o Str(C6_Segment(task.cwd[1]))
           /\ (task.cwd = Some(HomeProj)
                 => r.value.launch.program = "zig-out/bin/myproj")
           /\ r.value.launch.args = <<>>
           /\ r.value.launch.cwd = task.cwd
           /\ r.value.launch.envs = task.env

\* zig build in /home/u/myproj
C6_Witness ==
    /\ C6_Case
    /\ task.args = <<"build">>
    /\ task.cwd = Some(HomeProj)
    /\ task.env # <<>>
    /\ request[1].value.launch.program = "zig-out/bin/myproj"

(***************************************************************************)
(* C7  Unsupported tasks.  For a task whose first argument is neither      *)
(* "build" nor "test" (or that has no argument), scenario creation yields  *)
(* no scenario and no error, and the locator run yields the error          *)
(* "Unsupported build task", never a launch request.                       *)
(***************************************************************************)
C7_Unsupported == ~FirstArgIs("build") /\ ~FirstArgIs("test")

C7_UnsupportedAsymmetry ==
    C7_Unsupported
    => /\ IsSome(scenario) => scenario[1] = [panic |-> FALSE, value |-> None]
       /\ IsSome(request)
            => request[1] = [panic |-> FALSE,
                             value |-> [ok |-> FALSE, err |-> "Unsupported build task"]]

\* zig fmt, asked for both
C7_Witness ==
    /\ task.command = "zig"
    /\ task.args = <<"fmt">>
    /\ IsSome(scenario)
    /\ IsSome(request)
    /\ ~request[1].value.ok

(***************************************************************************)
(* C8  Platform token mapping.  On every (os, arch) pair the URL handed to *)
(* download_file is                                                        *)
(*   https://builds.zigtools.org/zls-<arch>-<os>-<version>.<ext>           *)
(* with arch aarch64 | x86 | x86_64, os macos | linux | windows, ext       *)
(* tar.gz on Mac and Linux and zip on Windows; the archive kind matches    *)
(* the extension; and the binary path is zls-<version>/zls, on Windows     *)
(* zls-<version>/zls.exe.                                                  *)
(***************************************************************************)
C8_Platforms ==
    {[os |-> "Mac", arch |-> "Aarch64", token |-> "aarch64-macos",
      ext |-> "tar.gz", kind |-> "GzipTar", bin |-> "zls"],
     [os |-> "Mac", arch |-> "X86", token |-> "x86-macos",
      ext |-> "tar.gz", kind |-> "GzipTar", bin |-> "zls"],
     [os |-> "Mac", arch |-> "X8664", token |-> "x86_64-macos",
      ext |-> "tar.gz", kind |-> "GzipTar", bin |-> "zls"],
     [os |-> "Linux", arch |-> "Aarch64", token |-> "aarch64-linux",
      ext |-> "tar.gz", kind |-> "GzipTar", bin |-> "zls"],
     [os |-> "Linux", arch |-> "X86", token |-> "x86-linux",
      ext |-> "tar.gz", kind |-> "GzipTar", bin |-> "zls"],
     [os |-> "Linux", arch |-> "X8664", token |-> "x86_64-linux",
      ext |-> "tar.gz", kind |-> "GzipTar", bin |-> "zls"],
     [os |-> "Windows", arch |-> "Aarch64", token |-> "aarch64-windows",
      ext |-> "zip", kind |-> "Zip", bin |-> "zls.exe"],
     [os |-> "Windows", arch |-> "X86", token |-> "x86-windows",
      ext |-> "zip", kind |-> "Zip", bin |-> "zls.exe"],
     [os |-> "Windows", arch |-> "X8664", token |-> "x86_64-windows",
      ext |-> "zip", kind |-> "Zip", bin |-> "zls.exe"]}

C8_Platform == CHOOSE p \in C8_Platforms : p.os = platform /\ p.arch = arch

C8_PlatformTokenMapping ==
    IsSome(call)
    => /\ \A e \in CallEvents("download_file") :
            /\ release.ok
            /\ e.url = "https://builds.zigtools.org/zls-" \o C8_Platform.token
                         \o "-" \o release.version \o "." \o C8_Platform.ext
            /\ e.type = C8_Platform.kind
            /\ e.dir = "zls-" \o release.version
       /\ (call[1].stage = "network" /\ call[1].result.ok)
            => call[1].result.path
                 = "zls-" \o release.version \o "/" \o C8_Platform.bin

\* a download on aarch64 + Mac
C8_Witness ==
    /\ IsSome(call)
    /\ platform = "Mac"
    /\ arch = "Aarch64"
    /\ call[1].result.ok
    /\ call[1].result.path = "zls-0.14.0/zls"
    /\ \E e \in CallEvents("download_file") :
          e.url = "https://builds.zigtools.org/zls-aarch64-macos-0.14.0.tar.gz"

(***************************************************************************)
(* C9  Settings arguments survive fall-through.  When the settings give    *)
(* arguments but no binary path, the binary returned by PATH discovery, by *)
(* the cache or by the download path carries those arguments; when the     *)
(* settings give no arguments, the returned binary carries none.           *)
(***************************************************************************)
C9_Configured ==
    IF settings.ok /\ IsSome(settings.binary)
    THEN settings.binary[1].arguments ELSE None

C9_ArgumentsSurvive ==
    (/\ IsSome(call)
     /\ call[1].result.ok
     /\ call[1].stage \in {"path", "cache", "network"})
    => /\ IsSome(C9_Configured) => call[1].result.args = C9_Configured
       /\ ~IsSome(C9_Configured) => call[1].result.args = None

\* a cache hit under settings that give arguments and no path
C9_Witness ==
    /\ IsSome(call)
    /\ call[1].stage = "cache"
    /\ call[1].result.ok
    /\ call[1].result.args = Some(<<"--enable-debug-log">>)

(***************************************************************************)
(* C10  Cleanup failures.  As stated: in a call in which download_file and *)
(* make_file_executable have succeeded, no failure of the cleanup (the     *)
(* listing, the read of an entry, the removal of a sibling) makes the call *)
(* return an error or keeps a sibling from being processed; the call       *)
(* returns the binary and populates the cache.                             *)
(***************************************************************************)
C10_Fetched ==
    /\ IsSome(call)
    /\ "make_file_executable" \in CallOps
    /\ call[1].in.dl = "ok"
    /\ call[1].in.exec

C10_VersionDir == "zls-" \o release.version

\* the siblings of version_dir when the cleanup starts
C10_Siblings == call[1].pre.entries \ {C10_VersionDir}

C10_Original ==
    C10_Fetched
    => /\ call[1].result.ok
       /\ cached_binary_path = Some(call[1].result.path)
       /\ \E e \in CallEvents("remove_dir_all") : e.targets = C10_Siblings

(***************************************************************************)
(* C10  amended: in such a call a failure to remove a stale sibling is     *)
(* swallowed: every sibling is still processed, those whose removal did    *)
(* not fail are gone, and the call returns the binary and populates the    *)
(* cache.  A failure to list the working directory, or to read one of its  *)
(* entries, makes the call return the error "failed to list working        *)
(* directory .." or "failed to load directory entry .." and leaves the     *)
(* cache as it was; the siblings not read before the failure stay.         *)
(***************************************************************************)
C10_CleanupFailures ==
    C10_Fetched
    => LET c == call[1]
           all == c.pre.entries \cup {C10_VersionDir}
       IN  /\ (c.in.list /\ c.in.seen = all)
                => /\ c.result.ok
                   /\ c.result.path = C10_VersionDir \o "/" \o BinaryFile(platform)
                   /\ cached_binary_path = Some(c.result.path)
                   /\ \E e \in CallEvents("remove_dir_all") :
                         /\ e.targets = C10_Siblings
                         /\ e.failed = C10_Siblings \cap c.in.rm_fail
                   /\ entries = all \ (C10_Siblings \ c.in.rm_fail)
           /\ ~c.in.list
                => /\ c.result = [ok |-> FALSE,
                                  err |-> "failed to list working directory " \o IoError]
                   /\ cached_binary_path = c.pre.cached
                   /\ entries = all
           /\ (c.in.list /\ c.in.seen # all)
                => /\ c.result = [ok |-> FALSE,
                                  err |-> "failed to load directory entry " \o IoError]
                   /\ cached_binary_path = c.pre.cached
                   /\ all \ c.in.seen \subseteq entries

\* one sibling's removal fails, another sibling is removed, the call succeeds
C10_Witness ==
    /\ C10_Fetched
    /\ call[1].in.list
    /\ C10_Siblings \cap call[1].in.rm_fail # {}
    /\ C10_Siblings \ entries # {}
    /\ call[1].result.ok
    /\ cached_binary_path = Some(call[1].result.path)

(***************************************************************************)
(* C11  Abort without a degraded result.  When the latest-release query,   *)
(* the download or make_file_executable fails, the call returns an error   *)
(* (for the download "failed to download file: " and the cause) and no     *)
(* binary, and none of the later steps of the call happens: no             *)
(* make_file_executable after a failed download, no cleanup, no write of   *)
(* the cache.                                                              *)
(***************************************************************************)
C11_QueryFailed == IsSome(call) /\ call[1].stage = "network" /\ ~release.ok

C11_DownloadFailed ==
    IsSome(call) /\ "download_file" \in CallOps /\ call[1].in.dl = "err"

C11_ExecFailed ==
    IsSome(call) /\ "make_file_executable" \in CallOps /\ ~call[1].in.exec

C11_AbortOnFailure ==
    /\ C11_QueryFailed
         => /\ call[1].result = [ok |-> FALSE, err |-> release.err]
            /\ call[1].log[Len(call[1].log)].op = "latest_github_release"
            /\ CallOps \cap {"download_file", "make_file_executable",
                             "read_dir", "remove_dir_all"} = {}
            /\ cached_binary_path = call[1].pre.cached
            /\ entries = call[1].pre.entries
            /\ files = call[1].pre.files
    /\ C11_DownloadFailed
         => /\ call[1].result
                 = [ok |-> FALSE, err |-> "failed to download file: " \o DownloadError]
            /\ CallOps \cap {"make_file_executable", "read_dir", "remove_dir_all"} = {}
            /\ cached_binary_path = call[1].pre.cached
            /\ entries = call[1].pre.entries
            /\ files = call[1].pre.files
    /\ C11_ExecFailed
         => /\ call[1].result = [ok |-> FALSE, err |-> ExecError]
            /\ CallOps \cap {"read_dir", "remove_dir_all"} = {}
            /\ cached_binary_path = call[1].pre.cached
            /\ call[1].pre.entries \subseteq entries

\* make_file_executable fails while a stale sibling and an older cache entry exist
C11_Witness ==
    /\ C11_ExecFailed
    /\ call[1].pre.entries # {}
    /\ IsSome(call[1].pre.cached)
    /\ ~call[1].result.ok

(***************************************************************************)
(* C12  Stage order.  The stages are tried in the order settings, PATH,    *)
(* cache, network and the first that yields a path wins: a zls on PATH is  *)
(* returned although a valid cached download exists, a valid cached        *)
(* download is returned without an update check although a newer release   *)
(* is published, and the CheckingForUpdate status and the release query    *)
(* occur exactly when the three early stages all miss.  An early stage     *)
(* emits no status, makes no network call and changes nothing in the       *)
(* working directory.                                                      *)
(***************************************************************************)
C12_Explicit ==
    settings.ok /\ IsSome(settings.binary) /\ IsSome(settings.binary[1].path)

C12_ValidCache ==
    /\ IsSome(call[1].pre.cached)
    /\ \E e \in call[1].pre.entries, f \in {"zls", "zls.exe"} :
          /\ call[1].pre.cached[1] = e \o "/" \o f
          /\ [dir |-> e, name |-> f] \in call[1].pre.files

C12_Winner ==
    IF C12_Explicit THEN "settings"
    ELSE IF IsSome(path_zls) THEN "path"
    ELSE IF C12_ValidCache THEN "cache"
    ELSE "network"

C12_StageOrder ==
    IsSome(call) =>
       LET c == call[1]
       IN  /\ c.stage = C12_Winner
           /\ c.stage = "settings" => c.result.ok /\ Some(c.result.path) = settings.binary[1].path
           /\ c.stage = "path" => c.result.ok /\ Some(c.result.path) = path_zls
           /\ c.stage = "cache" => c.result.ok /\ Some(c.result.path) = c.pre.cached
           /\ ([op |-> "set_status", status |-> "CheckingForUpdate"]
                 \in CallEvents("set_status")) <=> (c.stage = "network")
           /\ ("latest_github_release" \in CallOps) <=> (c.stage = "network")
           /\ c.stage # "network"
                => /\ CallOps \cap {"set_status", "latest_github_release",
                                    "download_file", "make_file_executable",
                                    "read_dir", "remove_dir_all"} = {}
                   /\ entries = c.pre.entries
                   /\ files = c.pre.files
                   /\ execs = c.pre.execs
                   /\ cached_binary_path = c.pre.cached

\* PATH wins over a valid cached download
C12_Witness ==
    /\ IsSome(call)
    /\ call[1].stage = "path"
    /\ C12_ValidCache

(***************************************************************************)
(* C13  Fetch gating and order.  In a call that reaches the network stage  *)
(* with a published release: when binary_path is already a regular file,   *)
(* the call emits no Downloading status, downloads nothing, makes nothing  *)
(* executable and removes nothing, and still returns the binary and writes *)
(* the cache; when it is not, the steps run in the order Downloading       *)
(* status, download_file, make_file_executable, cleanup (listing, then     *)
(* removals), cache update, each only if every earlier one succeeded.      *)
(***************************************************************************)
C13_Fetching == IsSome(call) /\ call[1].stage = "network" /\ release.ok

C13_BinaryPath ==
    "zls-" \o release.version \o (IF platform = "Windows" THEN "/zls.exe" ELSE "/zls")

C13_Existed ==
    \E f \in call[1].pre.files : f.dir \o "/" \o f.name = C13_BinaryPath

\* the names of the host calls the call made after the release query
C13_Steps ==
    LET log == call[1].log
        q == CHOOSE i \in 1..Len(log) : log[i].op = "latest_github_release"
    IN  [i \in 1..(Len(log) - q) |-> log[q + i].op]

C13_Expected ==
    LET in == call[1].in
    IN  IF C13_Existed THEN <<"metadata">>
        ELSE <<"metadata", "set_status", "download_file">>
             \o (IF in.dl = "ok" THEN <<"make_file_executable">> ELSE <<>>)
             \o (IF in.dl = "ok" /\ in.exec THEN <<"read_dir">> ELSE <<>>)
             \o (IF in.dl = "ok" /\ in.exec /\ in.list THEN <<"remove_dir_all">> ELSE <<>>)

\* every step of the fetch succeeded; a removal that fails does not count
\* (line 126 drops its result)
C13_AllSucceeded ==
    LET in == call[1].in
    IN  /\ in.dl = "ok"
        /\ in.exec
        /\ in.list
        /\ \A e \in call[1].pre.entries \cup {"zls-" \o release.version} : e \in in.seen

C13_FetchGating ==
    C13_Fetching =>
       LET c == call[1]
       IN  /\ C13_Steps = C13_Expected
           /\ \A e \in CallEvents("set_status") :
                 e.status \in {"CheckingForUpdate", "Downloading"}
           /\ C13_Existed
                => /\ c.result.ok
                   /\ c.result.path = C13_BinaryPath
                   /\ cached_binary_path = Some(C13_BinaryPath)
                   /\ entries = c.pre.entries
                   /\ files = c.pre.files
           /\ ~C13_Existed
                => /\ c.result.ok <=> C13_AllSucceeded
                   /\ cached_binary_path
                        = (IF C13_AllSucceeded THEN Some(C13_BinaryPath) ELSE c.pre.cached)

\* the binary is on disk, the cache is empty, the call returns it
C13_Witness ==
    /\ C13_Fetching
    /\ C13_Existed
    /\ call[1].pre.cached = None
    /\ call[1].result.ok

(***************************************************************************)
(* C14  Version-directory invariant.  After a call that downloaded and     *)
(* returned a binary, every entry of the working directory named other     *)
(* than "zls-<release version>" is gone unless its removal failed, the     *)
(* entry "zls-<release version>" is still there and holds the returned     *)
(* binary, and so at most one version directory is left when no removal    *)
(* failed.                                                                 *)
(***************************************************************************)
C14_FreshSuccess ==
    IsSome(call) /\ "download_file" \in CallOps /\ call[1].result.ok

C14_VersionDirs(es) == {e \in es : \E v \in Versions : e = "zls-" \o v}

C14_VersionDirInvariant ==
    C14_FreshSuccess =>
       LET c == call[1]
           version_dir == "zls-" \o release.version
           siblings == c.pre.entries \ {version_dir}
       IN  /\ version_dir \in entries
           /\ \E f \in files : /\ f.dir = version_dir
                               /\ f.dir \o "/" \o f.name = c.result.path
           /\ entries = {version_dir} \cup (siblings \cap c.in.rm_fail)
           /\ \A e \in CallEvents("remove_dir_all") :
                 version_dir \notin e.targets /\ e.targets = siblings
           /\ c.in.rm_fail = {} => C14_VersionDirs(entries) = {version_dir}
           /\ \A f \in files :
                 /\ f.dir \in entries
                 /\ f.dir # version_dir => f \in c.pre.files /\ f.dir \in c.in.rm_fail

\* the directory of the previous version and an unrelated entry are removed
C14_Witness ==
    /\ C14_FreshSuccess
    /\ C14_VersionDirs(call[1].pre.entries) # {}
    /\ Cardinality(call[1].pre.entries) = 2
    /\ entries = {"zls-" \o release.version}

(***************************************************************************)
(* C15  Windows quoting of test tasks.  On Windows the template of a       *)
(* "zig test ..." task has the token "test", then every further argument   *)
(* of the task wrapped in single quotes, in the task's order, then         *)
(* "--test-no-exec" and "-femit-bin='<current directory>/zig_test.exe'".   *)
(***************************************************************************)
C15_Case ==
    /\ IsSome(scenario)
    /\ platform = "Windows"
    /\ task.command = "zig"
    /\ FirstArgIs("test")
    /\ IsSome(current_dir)

C15_WindowsQuoting ==
    C15_Case
    => /\ ScenarioReturned
       /\ LET a == ScenarioTemplate.args
              n == Len(task.args)
          IN  /\ Len(a) = n + 2
              /\ a[1] = "test"
              /\ \A i \in 2..n : a[i] = "'" \o task.args[i] \o "'"
              /\ a[n + 1] = "--test-no-exec"
              /\ a[n + 2] = "-femit-bin='" \o Str(current_dir[1]) \o "/zig_test.exe'"

\* zig test foo.zig fmt on Windows: two arguments after "test", in order
C15_Witness ==
    /\ C15_Case
    /\ task.args = <<"test", "foo.zig", "fmt">>
    /\ ScenarioReturned
    /\ ScenarioTemplate.args
         = <<"test", "'foo.zig'", "'fmt'", "--test-no-exec",
             "-femit-bin='" \o Str(current_dir[1]) \o "/zig_test.exe'">>

(***************************************************************************)
(* C16  Test binary path agreement.  For a "zig test ..." task, on Mac,    *)
(* Linux and Windows alike, the program of the launch request is the file  *)
(* path the scenario's build step is told to emit: the value of its        *)
(* -femit-bin flag, the shell's single quotes around it set aside.         *)
(***************************************************************************)
C16_Case ==
    /\ IsSome(scenario)
    /\ IsSome(request)
    /\ task.command = "zig"
    /\ FirstArgIs("test")
    /\ IsSome(current_dir)

\* the flag names the path, bare or in single quotes
C16_Emits(flag, path) ==
    \/ flag = "-femit-bin=" \o path
    \/ flag = "-femit-bin='" \o path \o "'"

C16_PathAgreement ==
    C16_Case
    => /\ ScenarioReturned
       /\ ~request[1].panic
       /\ request[1].value.ok
       /\ C16_Emits(ScenarioTemplate.args[Len(ScenarioTemplate.args)],
                    request[1].value.launch.program)

(***************************************************************************)
(* C17  Working-directory normalization on Windows.  For a "build" task    *)
(* the project name is the final segment of the task's cwd once its        *)
(* backslashes are written as forward slashes, so that on Windows the cwd  *)
(* C:\Users\u\myproj gives the program "zig-out/bin/myproj"; a task        *)
(* without cwd, or whose cwd has no final segment, gives the error         *)
(* "Failed to get project name" and no launch request.                     *)
(***************************************************************************)
C17_Normalized(p) ==
    IF platform = "Windows"
    THEN [i \in 1..Len(p) |-> IF p[i] = "\\" THEN "/" ELSE p[i]]
    ELSE p

C17_Case == IsSome(request) /\ FirstArgIs("build")

\* the final segment of the normalized cwd, as Path::file_name finds it
C17_ProjectName ==
    IF IsSome(task.cwd) THEN FileName(C17_Normalized(task.cwd[1])) ELSE None

C17_CwdNormalization ==
    C17_Case
    => LET r == request[1]
       IN  /\ ~r.panic
           /\ IF IsSome(C17_ProjectName)
              THEN /\ r.value.ok
                   /\ r.value.launch.program
                        = "zig-out/bin/" \o Str(C17_ProjectName[1])
                   /\ (platform = "Windows" /\ task.cwd = Some(WinProj)
                         => r.value.launch.program = "zig-out/bin/myproj")
              ELSE r.value = [ok |-> FALSE, err |-> "Failed to get project name"]

(***************************************************************************)
(* C18  Cache write discipline.  In every step, cached_binary_path changes *)
(* only in a call that returns a binary through the network stage, and     *)
(* after such a call it is the returned path; a call answered by the       *)
(* settings, PATH or the cache, a call that returns an error, and every    *)
(* change of the environment leave it as it was; once set, it is never     *)
(* empty again.                                                            *)
(***************************************************************************)
C18_NetworkSuccess(c) ==
    IsSome(c) /\ c[1].stage = "network" /\ c[1].result.ok

C18_Step ==
    /\ cached_binary_path' # cached_binary_path => C18_NetworkSuccess(call')
    /\ C18_NetworkSuccess(call') => cached_binary_path' = Some(call'[1].result.path)
    /\ IsSome(call') /\ ~C18_NetworkSuccess(call')
         => cached_binary_path' = cached_binary_path
    /\ IsSome(cached_binary_path) => IsSome(cached_binary_path')

C18_CacheWriteDiscipline == [][C18_Step]_vars

\* a newer release replaces the cached path of the older one
C18_Witness ==
    /\ C18_NetworkSuccess(call)
    /\ IsSome(call[1].pre.cached)
    /\ cached_binary_path # call[1].pre.cached
    /\ cached_binary_path = Some(call[1].result.path)

(***************************************************************************)
(* C19  Returned binaries are executable.  From an empty working           *)
(* directory, in every sequence of calls on one instance, retries after a  *)
(* failed make_file_executable or a failed cleanup included, every path    *)
(* returned by the cache stage or the network stage is a path on which     *)
(* make_file_executable has succeeded, in that call or an earlier one.     *)
(***************************************************************************)
C19_ReturnedExecutable ==
    (/\ IsSome(call)
     /\ call[1].stage \in {"cache", "network"}
     /\ call[1].result.ok)
    => \E f \in execs : f.dir \o "/" \o f.name = call[1].result.path

(***************************************************************************)
(* C20  Scenario and locator compose.  Whenever a scenario is returned for *)
(* a task, on any platform, run_dap_locator given the scenario's build     *)
(* template (its command, args, cwd and env) does not answer "Unsupported  *)
(* build task", and a launch request it returns has the cwd and the        *)
(* environment of the original task.                                       *)
(***************************************************************************)
C20_Compose ==
    IsSome(located)
    => LET r == located[1]
       IN  /\ ~r.panic
           /\ r.value # [ok |-> FALSE, err |-> "Unsupported build task"]
           /\ r.value.ok
                => /\ r.value.launch.cwd = task.cwd
                   /\ r.value.launch.envs = task.env
           /\ FirstArgIs("test") => r.value.ok
           /\ FirstArgIs("build")
                => (r.value.ok
                    \/ r.value = [ok |-> FALSE, err |-> "Failed to get project name"])

\* the quoted template of a Windows test task, resolved to a launch request
C20_Witness ==
    /\ IsSome(located)
    /\ platform = "Windows"
    /\ task.args = <<"test", "foo.zig">>
    /\ IsSome(task.cwd)
    /\ task.env # <<>>
    /\ ~located[1].panic
    /\ located[1].value.ok
    /\ located[1].value.launch.envs = task.env

====
